---- MODULE Spec2Model ----
(***************************************************************************)
(* Model of app.py, the Streamlit script of the AI cloud cost visualiser.  *)
(* One run of the script is a sequence of steps: the widgets are read,     *)
(* the workload and pricing rows are looked up, the monthly cost is        *)
(* computed, the headline counts up to it frame by frame, and the chart    *)
(* series is built point by point.  An uncaught exception stops the run.   *)
(*                                                                         *)
(* Money is held in fixed point: a rate r of the pricing sheet is the      *)
(* integer r * RateDenom, and so is every cost derived from it.  Gigabyte  *)
(* quantities, GPU counts, user counts and hours are integers.             *)
(***************************************************************************)
EXTENDS Integers, Sequences, FiniteSets

\* ---------------------------------------------------------------- bounds
\* Rates and costs are multiples of 1/RateDenom of the currency unit.
RateDenom == 100
\* max_users of the config sheet ranges over SliderDefault..MaxUsers.
MaxUsers == 101
\* base_gpus of a workload row ranges over 1..MaxBaseGpus.
MaxBaseGpus == 2
\* One larger max_users, whose chart step is above 2.
LargeMaxUsers == 150

\* ---------------------------------------------------- program constants
\* st.slider(..., min_value=1, ...)
SliderMin == 1
\* st.slider(..., value=100, ...)
SliderDefault == 100
\* range(0, int(total_cost), max(1, int(total_cost // 50)))
AnimFrames == 50
\* range(1, max_users + 1, max(1, max_users // 50))
ChartPoints == 50

\* ------------------------------------------------------ input value sets
UsersPerGpuValues == {-2, 0, 3, 25, 50}
StorageGbValues == {0, 100}
EgressBaseValues == {0, 50}
EgressPerUserValues == {0, 1}
HourlyRateValues == {0, 200}
StoragePriceValues == {2}
EgressPriceValues == {0, 1}
HoursValues == {730}
MaxUsersValues == (SliderDefault..MaxUsers) \cup {LargeMaxUsers}
LookupErrors == {"KeyError", "IndexError"}

ArithmeticFaults == {"ZeroDivisionError", "OverflowError"}

VARIABLES
    workloads_df, pricing_df, hours_per_month, default_workload, max_users,
    selected_workload, concurrent_users,
    workload_row, pricing_row,
    gpu_count, compute_cost, total_storage_gb, storage_cost,
    total_egress_gb, egress_cost, total_cost,
    i, placeholder, shown,
    users, gpus_needed, c_cost, s_cost, egress_gb, e_cost, total, chart_data,
    pc, err

tables == <<workloads_df, pricing_df, hours_per_month, default_workload, max_users>>
inputs == <<selected_workload, concurrent_users>>
rows == <<workload_row, pricing_row>>
costs == <<gpu_count, compute_cost, total_storage_gb, storage_cost,
           total_egress_gb, egress_cost, total_cost>>
anim == <<i, placeholder, shown>>
chart == <<users, gpus_needed, c_cost, s_cost, egress_gb, e_cost, total, chart_data>>
vars == <<tables, inputs, rows, costs, anim, chart, pc, err>>

\* ------------------------------------------------------- pure functions
Max(a, b) == IF a >= b THEN a ELSE b

\* int(x) of a fixed-point amount: truncation toward zero, in whole units.
IntTrunc(x) ==
    IF x >= 0 THEN x \div RateDenom ELSE -((-x) \div RateDenom)

\* int(x // 50) of a fixed-point amount: floor division, in whole units.
FloorDivInt(x, d) == x \div (d * RateDenom)

\* The number a ":,.0f" format shows for a fixed-point amount: the nearest
\* whole unit, ties to the even one.
Format0f(x) ==
    LET q == x \div RateDenom
        r == x % RateDenom
    IN  IF 2 * r < RateDenom THEN q
        ELSE IF 2 * r > RateDenom THEN q + 1
        ELSE IF q % 2 = 0 THEN q ELSE q + 1

\* math.ceil replaced by a truncating division.
FloorDivide(a, b) ==
    IF b > 0 THEN a \div b ELSE (-a) \div (-b)

\* math.ceil(a / b) for integers a and b # 0: the least integer >= a / b.
CeilDiv(a, b) ==
    IF b > 0 THEN -((-a) \div b) ELSE -(a \div (-b))

\* df[df[key] == val]: the rows of a table whose key column equals val.
WorkloadMatches(df, name) == SelectSeq(df, LAMBDA r : r.workload_name = name)

\* A lookup that falls back to a free row when the GPU type is not priced.
PricingMatchesOrDefault(df, gpu) ==
    LET m == SelectSeq(df, LAMBDA r : r.gpu_type = gpu)
    IN  IF Len(m) = 0
        THEN <<[gpu_type |-> gpu, blended_hourly_usd |-> 0,
                storage_price_per_gb_month |-> 0, egress_price_per_gb |-> 0]>>
        ELSE m

PricingMatches(df, gpu) == SelectSeq(df, LAMBDA r : r.gpu_type = gpu)

\* workloads_df["workload_name"].tolist()
WorkloadNames(df) == {df[k].workload_name : k \in 1..Len(df)}

\* ------------------------------------------------------------ the sheets
WorkloadRow(name, gpu, base, upg, sg, eb, eu) ==
    [workload_name |-> name, gpu_type |-> gpu, base_gpus |-> base,
     users_per_gpu |-> upg, storage_gb_per_gpu |-> sg,
     egress_gb_per_gpu_base |-> eb, egress_gb_per_user |-> eu]

PricingRow(gpu, hourly, sp, ep) ==
    [gpu_type |-> gpu, blended_hourly_usd |-> hourly,
     storage_price_per_gb_month |-> sp, egress_price_per_gb |-> ep]

\* A row variable before its assignment.
NoWorkloadRow == WorkloadRow("", "", 0, 0, 0, 0, 0)
NoPricingRow == PricingRow("", 0, 0, 0)

\* Sheets of one workload and its pricing row, the numbers varying.
NumericWorkloads ==
    {<<WorkloadRow("chatbot", "A100", base, upg, sg, eb, eu)>> :
        base \in 1..MaxBaseGpus, upg \in UsersPerGpuValues,
        sg \in StorageGbValues, eb \in EgressBaseValues,
        eu \in EgressPerUserValues}

NumericPricing ==
    {<<PricingRow("A100", hourly, sp, ep)>> :
        hourly \in HourlyRateValues, sp \in StoragePriceValues,
        ep \in EgressPriceValues}

\* Sheets of fixed numbers, the rows present varying.
Chatbot == WorkloadRow("chatbot", "A100", 2, 50, 100, 50, 0)
Training == WorkloadRow("training", "H100", 1, 25, 100, 50, 1)
ChatbotAgain == WorkloadRow("chatbot", "H100", 1, 3, 0, 50, 1)
PriceA100 == PricingRow("A100", 200, 2, 1)
PriceH100 == PricingRow("H100", 0, 2, 1)
PriceA100Again == PricingRow("A100", 0, 2, 0)

LookupWorkloads == {<<Chatbot>>, <<Training, Chatbot>>, <<Chatbot, ChatbotAgain>>}
LookupPricing ==
    {<< >>, <<PriceA100>>, <<PriceH100>>, <<PriceH100, PriceA100>>,
     <<PriceA100, PriceA100Again>>}
DefaultWorkloads == {"chatbot", "legacy"}

\* ------------------------------------------------- headline calculations
\* Sizing without the base_gpus floor.
GpuCountNoFloor(base, upg, cu) == CeilDiv(cu, upg)

GpuCount(base, upg, cu) == Max(base, CeilDiv(cu, upg))
ComputeCost(g, rate, hours) == g * rate * hours
TotalStorageGb(sg, g) == sg * g
StorageCost(gb, price) == gb * price
\* The per-user egress term left out of the multiplication by the GPU count.
TotalEgressGbPerUserOnce(eb, eu, cu, g) == (eb * g) + (eu * cu)

TotalEgressGb(eb, eu, cu, g) == (eb + (eu * cu)) * g
EgressCost(gb, price) == gb * price
\* Each part rounded to whole currency units before the sum.
TotalCostRounded(c, s, e) ==
    (Format0f(c) + Format0f(s) + Format0f(e)) * RateDenom

TotalCost(c, s, e) == c + s + e

\* range(0, int(total_cost), max(1, int(total_cost // 50)))
AnimStop(t) == IntTrunc(t)
\* A count-up of a hundred frames instead of fifty.
AnimStepHundredth(t) == Max(1, FloorDivInt(t, 2 * AnimFrames))

AnimStep(t) == Max(1, FloorDivInt(t, AnimFrames))

\* --------------------------------------------------- chart calculations
\* The division's operands exchanged.
GpusNeededSwapped(base, upg, u) == Max(base, CeilDiv(upg, u))

\* The chart sized from the slider's user count instead of the point's.
GpusNeededAtSlider(base, upg, u) == Max(base, CeilDiv(concurrent_users, upg))

GpusNeeded(base, upg, u) == Max(base, CeilDiv(u, upg))
CCost(g, rate, hours) == g * rate * hours
SCost(g, sg, price) == g * sg * price
EgressGb(eb, eu, u, g) == (eb + (eu * u)) * g
ECost(gb, price) == gb * price
Total(c, s, e) == c + s + e

\* range(1, max_users + 1, max(1, max_users // 50))
ChartStop(mu) == mu + 1
ChartStep(mu) == Max(1, mu \div ChartPoints)

\* st.slider: the positions tried, within min_value..max_value.
SliderPicks(mu) == {u \in {SliderMin, SliderDefault, mu} : u >= SliderMin /\ u <= mu}

\* ------------------------------------------------------------------ Init
\* The script's own variables before the first statement that assigns them.
ScriptStart ==
    /\ selected_workload = "" /\ concurrent_users = 0
    /\ workload_row = NoWorkloadRow /\ pricing_row = NoPricingRow
    /\ gpu_count = 0 /\ compute_cost = 0 /\ total_storage_gb = 0
    /\ storage_cost = 0 /\ total_egress_gb = 0 /\ egress_cost = 0
    /\ total_cost = 0
    /\ i = 0 /\ placeholder = 0 /\ shown = << >>
    /\ users = 0 /\ gpus_needed = 0 /\ c_cost = 0 /\ s_cost = 0
    /\ egress_gb = 0 /\ e_cost = 0 /\ total = 0 /\ chart_data = << >>
    /\ pc = "inputs" /\ err = "none"

Init ==
    /\ \/ /\ workloads_df \in NumericWorkloads
          /\ pricing_df \in NumericPricing
          /\ default_workload = "chatbot"
       \/ /\ workloads_df \in LookupWorkloads
          /\ pricing_df \in LookupPricing
          /\ default_workload \in DefaultWorkloads
    /\ hours_per_month \in HoursValues
    /\ max_users \in MaxUsersValues
    /\ ScriptStart

\* --------------------------------------------------------------- actions
\* Lines 106-121: the selectbox and the slider.
SelectInputs ==
    /\ pc = "inputs" /\ err = "none"
    /\ IF default_workload \notin WorkloadNames(workloads_df)
       THEN /\ err' = "ValueError"
            /\ UNCHANGED <<inputs, pc>>
       ELSE /\ selected_workload' \in WorkloadNames(workloads_df)
            /\ concurrent_users' \in SliderPicks(max_users)
            /\ pc' = "lookup"
            /\ UNCHANGED err
    /\ UNCHANGED <<tables, rows, costs, anim, chart>>

\* Lines 126-137: the workload row, then the pricing row of its gpu_type.
LookupRows ==
    /\ pc = "lookup" /\ err = "none"
    /\ LET wm == WorkloadMatches(workloads_df, selected_workload)
       IN  IF Len(wm) = 0
           THEN /\ err' = "IndexError"
                /\ UNCHANGED <<rows, pc>>
           ELSE LET pm == PricingMatches(pricing_df, wm[1].gpu_type)
                IN  IF Len(pm) = 0
                    THEN /\ err' = IF Len(pricing_df) = 0 THEN "KeyError"
                                                          ELSE "IndexError"
                         /\ workload_row' = wm[1]
                         /\ UNCHANGED <<pricing_row, pc>>
                    ELSE /\ workload_row' = wm[1]
                         /\ pricing_row' = pm[1]
                         /\ pc' = "calc"
                         /\ UNCHANGED err
    /\ UNCHANGED <<tables, inputs, costs, anim, chart>>

\* Lines 142-156: GPU count and the three costs.
Calculate ==
    /\ pc = "calc" /\ err = "none"
    /\ IF workload_row.users_per_gpu = 0
       THEN /\ err' \in ArithmeticFaults
            /\ UNCHANGED <<costs, pc>>
       ELSE LET g == GpuCount(workload_row.base_gpus, workload_row.users_per_gpu,
                              concurrent_users)
                c == ComputeCost(g, pricing_row.blended_hourly_usd, hours_per_month)
                sgb == TotalStorageGb(workload_row.storage_gb_per_gpu, g)
                s == StorageCost(sgb, pricing_row.storage_price_per_gb_month)
                egb == TotalEgressGb(workload_row.egress_gb_per_gpu_base,
                                     workload_row.egress_gb_per_user,
                                     concurrent_users, g)
                e == EgressCost(egb, pricing_row.egress_price_per_gb)
            IN  /\ gpu_count' = g
                /\ compute_cost' = c
                /\ total_storage_gb' = sgb
                /\ storage_cost' = s
                /\ total_egress_gb' = egb
                /\ egress_cost' = e
                /\ total_cost' = TotalCost(c, s, e)
                /\ pc' = "animate"
                /\ UNCHANGED err
    /\ UNCHANGED <<tables, inputs, rows, anim, chart>>

\* Lines 162-164: one frame of the count-up.
AnimateFrame ==
    /\ pc = "animate" /\ err = "none"
    /\ i < AnimStop(total_cost)
    /\ placeholder' = Format0f(i * RateDenom)
    /\ shown' = Append(shown, Format0f(i * RateDenom))
    /\ i' = i + AnimStep(total_cost)
    /\ UNCHANGED <<tables, inputs, rows, costs, chart, pc, err>>

\* Lines 165-172: the headline figure and the breakdown.
ShowTotal ==
    /\ pc = "animate" /\ err = "none"
    /\ i >= AnimStop(total_cost)
    /\ placeholder' = Format0f(total_cost)
    /\ pc' = "chart"
    /\ users' = SliderMin
    /\ UNCHANGED <<tables, inputs, rows, costs, i, shown, gpus_needed, c_cost,
                   s_cost, egress_gb, e_cost, total, chart_data, err>>

\* Lines 178-185: one point of the chart series.
ChartPoint ==
    /\ pc = "chart" /\ err = "none"
    /\ users < ChartStop(max_users)
    /\ LET g == GpusNeeded(workload_row.base_gpus, workload_row.users_per_gpu, users)
           c == CCost(g, pricing_row.blended_hourly_usd, hours_per_month)
           s == SCost(g, workload_row.storage_gb_per_gpu,
                      pricing_row.storage_price_per_gb_month)
           egb == EgressGb(workload_row.egress_gb_per_gpu_base,
                           workload_row.egress_gb_per_user, users, g)
           e == ECost(egb, pricing_row.egress_price_per_gb)
           t == Total(c, s, e)
       IN  /\ gpus_needed' = g
           /\ c_cost' = c
           /\ s_cost' = s
           /\ egress_gb' = egb
           /\ e_cost' = e
           /\ total' = t
           /\ chart_data' = Append(chart_data, [users |-> users, cost |-> t])
    /\ users' = users + ChartStep(max_users)
    /\ UNCHANGED <<tables, inputs, rows, costs, anim, pc, err>>

\* Lines 187-200: the chart is drawn and the script ends.
DrawChart ==
    /\ pc = "chart" /\ err = "none"
    /\ users >= ChartStop(max_users)
    /\ pc' = "done"
    /\ UNCHANGED <<tables, inputs, rows, costs, anim, chart, err>>

\* Streamlit runs the script again from the top, the cached sheets kept.
Rerun ==
    /\ pc = "done" \/ err # "none"
    /\ selected_workload' = "" /\ concurrent_users' = 0
    /\ workload_row' = NoWorkloadRow /\ pricing_row' = NoPricingRow
    /\ gpu_count' = 0 /\ compute_cost' = 0 /\ total_storage_gb' = 0
    /\ storage_cost' = 0 /\ total_egress_gb' = 0 /\ egress_cost' = 0
    /\ total_cost' = 0
    /\ i' = 0 /\ placeholder' = 0 /\ shown' = << >>
    /\ users' = 0 /\ gpus_needed' = 0 /\ c_cost' = 0 /\ s_cost' = 0
    /\ egress_gb' = 0 /\ e_cost' = 0 /\ total' = 0 /\ chart_data' = << >>
    /\ pc' = "inputs" /\ err' = "none"
    /\ UNCHANGED tables

Next ==
    \/ SelectInputs
    \/ LookupRows
    \/ Calculate
    \/ AnimateFrame
    \/ ShowTotal
    \/ ChartPoint
    \/ DrawChart
    \/ Rerun

Spec == Init /\ [][Next]_vars

\* ------------------------------------------------------------ properties
\* The costs of lines 142-156 have been computed.
Sized == pc \in {"animate", "chart", "done"}

\* At least one chart point has been computed.
Charted == Len(chart_data) > 0

\* The user count of the chart point computed last.
LastUsers == chart_data[Len(chart_data)].users

\* The rows obey the data model: a positive capacity, a floor of at least
\* one GPU, no negative quantity or rate.
ValidRows ==
    /\ workload_row.users_per_gpu > 0
    /\ workload_row.base_gpus >= 1
    /\ workload_row.storage_gb_per_gpu >= 0
    /\ workload_row.egress_gb_per_gpu_base >= 0
    /\ workload_row.egress_gb_per_user >= 0
    /\ pricing_row.blended_hourly_usd >= 0
    /\ pricing_row.storage_price_per_gb_month >= 0
    /\ pricing_row.egress_price_per_gb >= 0
    /\ hours_per_month >= 0

\* The headline total of lines 142-156 for u concurrent users and the rows
\* looked up.
HeadlineTotal(u) ==
    LET g == GpuCount(workload_row.base_gpus, workload_row.users_per_gpu, u)
        c == ComputeCost(g, pricing_row.blended_hourly_usd, hours_per_month)
        sgb == TotalStorageGb(workload_row.storage_gb_per_gpu, g)
        s == StorageCost(sgb, pricing_row.storage_price_per_gb_month)
        egb == TotalEgressGb(workload_row.egress_gb_per_gpu_base,
                             workload_row.egress_gb_per_user, u, g)
        e == EgressCost(egb, pricing_row.egress_price_per_gb)
    IN  TotalCost(c, s, e)

\* C1 - Monotonicity: with valid rows the total monthly cost never goes down
\* as the user count goes up: the headline total as a function of the user
\* count is non-decreasing over the slider's range, the chart's Monthly Cost
\* is non-decreasing along its user points, and the headline total lies on
\* the right side of every chart point.
Monotonicity ==
    /\ (pc = "animate" /\ i = 0 /\ ValidRows) =>
           \A u \in SliderMin..(max_users - 1) :
               HeadlineTotal(u) <= HeadlineTotal(u + 1)
    /\ ValidRows =>
           \A k \in 1..Len(chart_data) :
               /\ k > 1 => /\ chart_data[k - 1].users <= chart_data[k].users
                           /\ chart_data[k - 1].cost <= chart_data[k].cost
               /\ chart_data[k].users <= concurrent_users =>
                      chart_data[k].cost <= total_cost
               /\ chart_data[k].users >= concurrent_users =>
                      chart_data[k].cost >= total_cost

MonotonicityWitness ==
    /\ pc = "done" /\ ValidRows
    /\ chart_data[1].cost < chart_data[Len(chart_data)].cost
    /\ chart_data[1].cost < total_cost
    /\ total_cost < chart_data[Len(chart_data)].cost

\* C2 - Floor invariant: the GPU count of the headline estimate and the GPU
\* count of every chart point are at least the workload's base_gpus.
FloorInvariant ==
    /\ Sized => gpu_count >= workload_row.base_gpus
    /\ Charted => gpus_needed >= workload_row.base_gpus

FloorInvariantWitness ==
    /\ Sized /\ Charted
    /\ workload_row.users_per_gpu > 0
    /\ CeilDiv(concurrent_users, workload_row.users_per_gpu) < workload_row.base_gpus
    /\ gpu_count = workload_row.base_gpus
    /\ gpus_needed = workload_row.base_gpus

\* C3 - Ceiling correctness: with users_per_gpu > 0 the sized GPU count
\* covers the users (gpu_count * users_per_gpu >= num_users), and above the
\* floor it is the least such count, one GPU fewer would not cover them;
\* users_per_gpu = 25, base_gpus = 1 and 101 users give 5 GPUs.
CeilingCorrectness ==
    /\ (Sized /\ workload_row.users_per_gpu > 0) =>
           /\ gpu_count * workload_row.users_per_gpu >= concurrent_users
           /\ gpu_count > workload_row.base_gpus =>
                  (gpu_count - 1) * workload_row.users_per_gpu < concurrent_users
           /\ (workload_row.users_per_gpu = 25 /\ workload_row.base_gpus = 1
               /\ concurrent_users = 101) => gpu_count = 5
    /\ (Charted /\ workload_row.users_per_gpu > 0) =>
           /\ gpus_needed * workload_row.users_per_gpu >= LastUsers
           /\ gpus_needed > workload_row.base_gpus =>
                  (gpus_needed - 1) * workload_row.users_per_gpu < LastUsers

CeilingCorrectnessWitness ==
    /\ Sized /\ Charted
    /\ workload_row.users_per_gpu = 25 /\ workload_row.base_gpus = 1
    /\ concurrent_users = 101 /\ gpu_count = 5
    /\ LastUsers = 101 /\ gpus_needed = 5

\* C4 - Cost breakdown: with valid rows the compute, storage, egress and
\* total costs are non-negative and the total is exactly the sum of the
\* three parts, for the headline estimate and for every chart point.
CostBreakdown ==
    /\ (Sized /\ ValidRows) =>
           /\ compute_cost >= 0 /\ storage_cost >= 0 /\ egress_cost >= 0
           /\ total_cost >= 0
           /\ total_cost = compute_cost + storage_cost + egress_cost
    /\ (Charted /\ ValidRows) =>
           /\ c_cost >= 0 /\ s_cost >= 0 /\ e_cost >= 0 /\ total >= 0
           /\ total = c_cost + s_cost + e_cost
           /\ chart_data[Len(chart_data)].cost = c_cost + s_cost + e_cost

CostBreakdownWitness ==
    /\ Sized /\ Charted /\ ValidRows
    /\ compute_cost > 0 /\ storage_cost > 0 /\ egress_cost > 0
    /\ egress_cost % RateDenom # 0
    /\ c_cost > 0 /\ s_cost > 0 /\ e_cost > 0

\* C5 - Egress formula: egress_gb is the GPU count times the whole bracket
\* (the per-GPU base plus the per-user egress times the user count), and
\* the egress cost is egress_gb times the price per GB, in the headline
\* estimate and in every chart point.
EgressFormula ==
    /\ Sized =>
           /\ total_egress_gb =
                  (gpu_count * workload_row.egress_gb_per_gpu_base)
                  + (gpu_count * workload_row.egress_gb_per_user * concurrent_users)
           /\ egress_cost = total_egress_gb * pricing_row.egress_price_per_gb
    /\ Charted =>
           /\ egress_gb =
                  (gpus_needed * workload_row.egress_gb_per_gpu_base)
                  + (gpus_needed * workload_row.egress_gb_per_user * LastUsers)
           /\ e_cost = egress_gb * pricing_row.egress_price_per_gb

EgressFormulaWitness ==
    /\ Sized /\ Charted
    /\ workload_row.egress_gb_per_user > 0
    /\ workload_row.egress_gb_per_gpu_base > 0
    /\ pricing_row.egress_price_per_gb > 0
    /\ gpu_count > 1 /\ gpus_needed > 1

\* C6 - Invalid sizing input is rejected: once sizing has been attempted on
\* a row with users_per_gpu <= 0, the run has stopped with InvalidInputError
\* and no GPU count or cost has been produced.
InvalidSizingRejected ==
    (/\ workload_row.users_per_gpu <= 0
     /\ (Sized \/ (pc = "calc" /\ err # "none")))
        => (err = "InvalidInputError" /\ ~Sized)

\* C7 - Not-found propagation: when the default workload is not in the
\* workload sheet the run stops with an error at the selectbox; when the
\* selected workload or its gpu_type has no row the lookup stops the run
\* with an error; in both cases no cost is computed.
NoPricingRowFor(gpu) ==
    \A k \in 1..Len(pricing_df) : pricing_df[k].gpu_type # gpu

NoWorkloadRowFor(name) ==
    \A k \in 1..Len(workloads_df) : workloads_df[k].workload_name # name

SelectedGpuType ==
    LET k == CHOOSE j \in 1..Len(workloads_df) :
                 /\ workloads_df[j].workload_name = selected_workload
                 /\ \A h \in 1..(j - 1) :
                        workloads_df[h].workload_name # selected_workload
    IN  workloads_df[k].gpu_type

NotFoundPropagation ==
    [][/\ (pc = "inputs" /\ err = "none" /\ NoWorkloadRowFor(default_workload)) =>
              (err' = "ValueError" /\ pc' = "inputs" /\ UNCHANGED <<costs, chart>>)
       /\ (pc = "lookup" /\ err = "none"
           /\ (\/ NoWorkloadRowFor(selected_workload)
               \/ NoPricingRowFor(SelectedGpuType))) =>
              (/\ err' \in LookupErrors
               /\ pc' = "lookup"
               /\ pricing_row' = NoPricingRow
               /\ UNCHANGED <<costs, anim, chart>>)
       /\ err # "none" => (pc' = "inputs" /\ ~Sized')]_vars

NotFoundPropagationWitness ==
    /\ pc = "lookup" /\ err = "IndexError"
    /\ NoPricingRowFor(workload_row.gpu_type)
    /\ Len(pricing_df) > 0
    /\ total_cost = 0 /\ ~Charted

\* C8 - Curve range: the finished chart series starts at 1 user, ends at
\* max_users, and its user points are evenly spaced and strictly increasing.
CurveRange ==
    pc = "done" =>
        /\ Charted
        /\ chart_data[1].users = SliderMin
        /\ LastUsers = max_users
        /\ \A k \in 2..Len(chart_data) :
               /\ chart_data[k].users > chart_data[k - 1].users
               /\ chart_data[k].users - chart_data[k - 1].users
                      = chart_data[2].users - chart_data[1].users

\* C9 - Curve/headline agreement: the Monthly Cost of every chart point is
\* the headline total for that point's own user count, and at the point
\* whose user count is the slider's it is the headline total shown.
CurveHeadlineAgreement ==
    \A k \in 1..Len(chart_data) :
        /\ chart_data[k].cost = HeadlineTotal(chart_data[k].users)
        /\ chart_data[k].users = concurrent_users =>
               chart_data[k].cost = total_cost

CurveHeadlineAgreementWitness ==
    /\ pc = "done"
    /\ concurrent_users > SliderMin
    /\ \E k \in 1..Len(chart_data) :
           /\ chart_data[k].users = concurrent_users
           /\ chart_data[k].cost = total_cost
    /\ \E k \in 1..Len(chart_data) : chart_data[k].cost # total_cost

\* C10 - Count-up display: the count-up shows fewer than 100 intermediate
\* frames; they start at 0, strictly increase and stay below total_cost;
\* the loop variable advances by the step with every frame and never runs
\* past the stop by a whole step; once the loop is over the placeholder
\* holds total_cost as the format shows it, and a total below one currency
\* unit shows no intermediate frame.
CountUpDisplay ==
    /\ Len(shown) < 100
    /\ \A k \in 1..Len(shown) :
           /\ k = 1 => shown[k] = 0
           /\ k > 1 => shown[k - 1] < shown[k]
           /\ Sized => shown[k] * RateDenom < total_cost
    /\ pc = "animate" =>
           /\ i = Len(shown) * AnimStep(total_cost)
           /\ i < AnimStop(total_cost) + AnimStep(total_cost)
           /\ Len(shown) > 0 => placeholder = shown[Len(shown)]
    /\ pc \in {"chart", "done"} =>
           /\ placeholder = Format0f(total_cost)
           /\ total_cost < RateDenom => shown = << >>
           /\ total_cost >= RateDenom => Len(shown) > 0

CountUpDisplayWitness ==
    /\ pc = "chart"
    /\ Len(shown) > AnimFrames
    /\ shown[1] = 0
    /\ placeholder = Format0f(total_cost)
    /\ placeholder > shown[Len(shown)]

====
